---- MODULE Spec2Model ----
(***************************************************************************)
(* Model of quickcut-webui's server (src/webui/server.py): the byte-range  *)
(* resolver and /api/stream, and the /api/cut segment exporter with its    *)
(* thread pool.  Strings are sequences of one-character strings so that    *)
(* parsing and formatting are computed, not assumed.                       *)
(***************************************************************************)
EXTENDS Integers, Sequences, FiniteSets, TLC

\* ---------------------------------------------------------------- bounds
\* Largest of the small file sizes (bytes) a stream request may meet.
MaxSize == 4
\* Longest run of digits in either bound of a generated Range header.
MaxDigits == 2
\* Most segments one /api/cut request carries.
MaxSegs == 2
\* Largest logical CPU count of the host.
MaxCpu == 2

\* ------------------------------------------------------------- characters
Digits == {"0", "1", "2", "3", "4", "5", "6", "7", "8", "9"}

DigitVal(c) ==
    CASE c = "0" -> 0 [] c = "1" -> 1 [] c = "2" -> 2 [] c = "3" -> 3
      [] c = "4" -> 4 [] c = "5" -> 5 [] c = "6" -> 6 [] c = "7" -> 7
      [] c = "8" -> 8 [] c = "9" -> 9

Min(a, b) == IF a <= b THEN a ELSE b
Max(a, b) == IF a >= b THEN a ELSE b

\* Value of a run of decimal digits, most significant first (int("") is
\* never asked for: callers test for the empty run first).
RECURSIVE DecVal(_)
DecVal(s) ==
    IF s = <<>> THEN 0
    ELSE 10 * DecVal(SubSeq(s, 1, Len(s) - 1)) + DigitVal(s[Len(s)])

\* The longest run of digits of s that starts at position i: a greedy \d*.
RECURSIVE DigitRun(_, _)
DigitRun(s, i) ==
    IF i <= Len(s) /\ s[i] \in Digits
    THEN <<s[i]>> \o DigitRun(s, i + 1)
    ELSE <<>>

\* ------------------------------------------------------------ Python text
Str_colon == ":"
IsDigit(c) == c \in Digits
IsSpace(c) == c = " "

\* str.strip(): what lies between the first and the last character that
\* is no blank.
LStrip(s) ==
    LET ns == {i \in 1 .. Len(s) : ~IsSpace(s[i])}
    IN  IF ns = {} THEN <<>>
        ELSE SubSeq(s, CHOOSE i \in ns : \A j \in ns : i <= j, Len(s))
RStrip(s) ==
    LET ns == {i \in 1 .. Len(s) : ~IsSpace(s[i])}
    IN  IF ns = {} THEN <<>>
        ELSE SubSeq(s, 1, CHOOSE i \in ns : \A j \in ns : j <= i)
Strip(s) == RStrip(LStrip(s))

\* str.split(sep) for a one-character separator: the parts between the
\* separators, always at least one part.
Split(s, sep) ==
    LET at     == {i \in 1 .. Len(s) : s[i] = sep}
        n      == Cardinality(at)
        nth(k) == IF k = 0 THEN 0
                  ELSE IF k = n + 1 THEN Len(s) + 1
                  ELSE CHOOSE i \in at : Cardinality({j \in at : j <= i}) = k
    IN  [k \in 1 .. n + 1 |-> SubSeq(s, nth(k - 1) + 1, nth(k) - 1)]

\* str.replace(a, b) for one-character a and b.
Replace(s, a, b) == [i \in 1 .. Len(s) |-> IF s[i] = a THEN b ELSE s[i]]

\* int(text): surrounding blanks, an optional sign, then digits that may be
\* grouped by single underscores.
PyInt(text) ==
    LET t    == Strip(text)
        neg  == t # <<>> /\ t[1] = "-"
        body == IF t # <<>> /\ t[1] \in {"+", "-"} THEN Tail(t) ELSE t
        ok   == /\ body # <<>>
                /\ IsDigit(body[1]) /\ IsDigit(body[Len(body)])
                /\ \A i \in 1 .. Len(body) : IsDigit(body[i]) \/ body[i] = "_"
                /\ \A i \in 1 .. Len(body) - 1 : ~(body[i] = "_" /\ body[i + 1] = "_")
        mag  == DecVal(SelectSeq(body, IsDigit))
    IN  IF ok THEN [raised |-> FALSE, value |-> IF neg THEN 0 - mag ELSE mag]
        ELSE [raised |-> TRUE, value |-> 0]

\* ----------------------------------------------------------- parse_timecode
\* Mutation of parse_timecode: text that cannot be read counts as zero.
parse_timecode_Lenient(tc) ==
    LET parts == Split(Strip(tc), Str_colon)
        n     == Len(parts)
        v(k)  == PyInt(parts[k])
        bad   == {k \in 1 .. n : v(k).raised}
    IN  [raised |-> FALSE, error |-> "", literal |-> <<>>,
         value |-> IF n > 3 \/ bad # {} THEN 0
                   ELSE IF n = 1 THEN v(1).value
                   ELSE IF n = 2 THEN v(1).value * 60 + v(2).value
                   ELSE v(1).value * 3600 + v(2).value * 60 + v(3).value]

\* parse_timecode after the split: the value of one to three integer
\* parts, or the ValueError raised.
ParseParts(parts) ==
    LET n     == Len(parts)
        v(k)  == PyInt(parts[k])
        bad   == {k \in 1 .. n : v(k).raised}
    IN  IF n > 3
        THEN [raised |-> TRUE, error |-> "Bad timecode", literal |-> <<>>, value |-> 0]
        ELSE IF bad # {}
        THEN \* int() quotes the text it could not read: the first such part
             [raised |-> TRUE, error |-> "invalid literal for int() with base 10",
              literal |-> parts[CHOOSE k \in bad : \A j \in bad : k <= j], value |-> 0]
        ELSE [raised |-> FALSE, error |-> "", literal |-> <<>>,
              value |-> IF n = 1 THEN v(1).value
                        ELSE IF n = 2 THEN v(1).value * 60 + v(2).value
                        ELSE v(1).value * 3600 + v(2).value * 60 + v(3).value]

\* parts = tc.strip().split(":"), split once, then the parts are read.
parse_timecode(tc) ==
    CHOOSE r \in {ParseParts(parts) : parts \in {Split(Strip(tc), Str_colon)}} : TRUE

safe_time_for_name(tc) == Replace(tc, ":", "-")

\* ------------------------------------------------------------- fmt_iso_utc
DigitChar(d) ==
    CASE d = 0 -> "0" [] d = 1 -> "1" [] d = 2 -> "2" [] d = 3 -> "3"
      [] d = 4 -> "4" [] d = 5 -> "5" [] d = 6 -> "6" [] d = 7 -> "7"
      [] d = 8 -> "8" [] d = 9 -> "9"

\* n >= 0 in decimal, left-padded with zeros to at least w characters
\* (strftime's %Y, %m, ...; str(i).zfill(w)).
RECURSIVE ZeroPad(_, _)
ZeroPad(n, w) ==
    IF n < 10 /\ w <= 1 THEN <<DigitChar(n)>>
    ELSE Append(ZeroPad(n \div 10, w - 1), DigitChar(n % 10))

\* The proleptic Gregorian date of a day count since 1970-01-01.
CivilFromDays(days) ==
    LET z   == days + 719468
        era == z \div 146097
        doe == z - era * 146097
        yoe == (doe - doe \div 1460 + doe \div 36524 - doe \div 146096) \div 365
        doy == doe - (365 * yoe + yoe \div 4 - yoe \div 100)
        mp  == (5 * doy + 2) \div 153
        d   == doy - (153 * mp + 2) \div 5 + 1
        m   == IF mp < 10 THEN mp + 3 ELSE mp - 9
        y   == yoe + era * 400 + (IF m <= 2 THEN 1 ELSE 0)
    IN  [year |-> y, month |-> m, day |-> d]

\* datetime.fromtimestamp(epoch, tz=utc).strftime("%Y-%m-%dT%H:%M:%SZ")
fmt_iso_utc(epoch) ==
    LET date == CivilFromDays(epoch \div 86400)
        sod  == epoch % 86400
    IN  ZeroPad(date.year, 4) \o <<"-">> \o ZeroPad(date.month, 2) \o <<"-">>
        \o ZeroPad(date.day, 2) \o <<"T">> \o ZeroPad(sod \div 3600, 2) \o <<":">>
        \o ZeroPad((sod % 3600) \div 60, 2) \o <<":">> \o ZeroPad(sod % 60, 2)
        \o <<"Z">>

\* ------------------------------------------------------------------- paths
\* The last position of c in s, 0 when there is none (str.rfind + 1).
LastIndexOf(s, c) ==
    LET at == {i \in 1 .. Len(s) : s[i] = c}
    IN  IF at = {} THEN 0 ELSE CHOOSE i \in at : \A j \in at : j <= i

\* os.path.basename / os.path.dirname (POSIX)
basename(p) == SubSeq(p, LastIndexOf(p, "/") + 1, Len(p))
dirname(p) ==
    LET k == LastIndexOf(p, "/")
    IN  IF k = 0 THEN <<>> ELSE IF k = 1 THEN <<"/">> ELSE SubSeq(p, 1, k - 1)

\* os.path.splitext(b)[0]: a dot that only leads the name starts no extension.
splitext0(b) ==
    LET k == LastIndexOf(b, ".")
    IN  IF k > 1 /\ \E i \in 1 .. k - 1 : b[i] # "." THEN SubSeq(b, 1, k - 1) ELSE b

stem_from_path(path) == splitext0(basename(path))

\* os.path.join(a, b) for a relative b
path_join(a, b) ==
    IF a = <<>> \/ a[Len(a)] = "/" THEN a \o b ELSE a \o <<"/">> \o b

\* ------------------------------------------------------------- _parse_range
\* Python's None for an absent header; no character sequence equals it.
None == <<"None">>

BytesEq == <<"b", "y", "t", "e", "s", "=">>

\* re.match(r"bytes=(\d*)-(\d*)", h): anchored at the start only.  After
\* the literal, \d* takes the longest digit run; a shorter run is followed
\* by a digit, never by "-", so backtracking finds no other match.
ReMatch(h) ==
    IF Len(h) >= Len(BytesEq) /\ SubSeq(h, 1, Len(BytesEq)) = BytesEq
    THEN LET g1 == DigitRun(h, Len(BytesEq) + 1)
             d  == Len(BytesEq) + Len(g1) + 1
         IN  IF d <= Len(h) /\ h[d] = "-"
             THEN [matched |-> TRUE, g1 |-> g1, g2 |-> DigitRun(h, d + 1)]
             ELSE [matched |-> FALSE, g1 |-> <<>>, g2 |-> <<>>]
    ELSE [matched |-> FALSE, g1 |-> <<>>, g2 |-> <<>>]

Raised(msg) == [raised |-> TRUE, error |-> msg, start |-> 0, end |-> 0]
Window(s, e) == [raised |-> FALSE, error |-> "", start |-> s, end |-> e]

\* Mutation of SuffixRange: a suffix length of zero is let through.
SuffixRange_ZeroOk(g2, file_size) ==
    LET length == DecVal(g2)
    IN  IF length < 0 THEN Raised("Bad suffix length")
        ELSE Window(Max(0, file_size - length), file_size - 1)

\* Mutation of SuffixRange: the start is not held at zero.
SuffixRange_NoMax(g2, file_size) ==
    LET length == DecVal(g2)
    IN  IF length <= 0 THEN Raised("Bad suffix length")
        ELSE Window(file_size - length, file_size - 1)

\* The suffix branch: the last N bytes.
SuffixRange(g2, file_size) ==
    LET length == DecVal(g2)
    IN  IF length <= 0 THEN Raised("Bad suffix length")
        ELSE Window(Max(0, file_size - length), file_size - 1)

\* Mutation of StartRange: the end is not clamped to the file.
StartRange_NoClamp(g1, g2, file_size) ==
    LET start == DecVal(g1)
        end   == IF g2 = <<>> THEN file_size - 1 ELSE DecVal(g2)
    IN  IF start >= file_size \/ start > end THEN Raised("Out of range")
        ELSE Window(start, end)

\* The branch with a start: "a-" and "a-b".
StartRange(g1, g2, file_size) ==
    LET start == DecVal(g1)
        end   == IF g2 = <<>> THEN file_size - 1 ELSE DecVal(g2)
    IN  IF start >= file_size \/ start > end THEN Raised("Out of range")
        ELSE Window(start, Min(end, file_size - 1))

ParseRange(range_header, file_size) ==
    LET m == ReMatch(IF range_header = None THEN <<>> ELSE range_header)
    IN  IF ~m.matched THEN Raised("Bad Range header")
        ELSE IF m.g1 = <<>> /\ m.g2 = <<>> THEN Raised("Empty range")
        ELSE IF m.g1 = <<>> THEN SuffixRange(m.g2, file_size)
        ELSE StartRange(m.g1, m.g2, file_size)

\* ------------------------------------------------------------ stream inputs
\* Digits the generated headers are written with.
HeaderDigits == {"0", "1", "3"}

RECURSIVE DigitStrings(_)
DigitStrings(n) ==
    IF n = 0 THEN {<<>>}
    ELSE LET shorter == DigitStrings(n - 1)
         IN  shorter \cup {s \o <<c>> : s \in shorter, c \in HeaderDigits}

Units == {BytesEq, <<"b", "i", "t", "s", "=">>}
Dashes == {<<"-">>, <<>>}
Tails == {<<>>, <<",", "1", "-", "3">>}

Headers ==
    {None, <<>>} \cup
    {u \o g1 \o d \o g2 \o t :
        u \in Units, g1 \in DigitStrings(MaxDigits), d \in Dashes,
        g2 \in DigitStrings(MaxDigits), t \in Tails}

\* chunk_size = 1024 * 1024  # 1 MiB
chunk_size == 1024 * 1024

\* File sizes: the small ones, and some around one and two chunks of the
\* streaming loop (1 MiB each).
Sizes == (0 .. MaxSize) \cup {chunk_size + 1, 2 * chunk_size, 2 * chunk_size + 1}

VARIABLES
    cpu_count,      \* os.cpu_count() of the host
    host,           \* the host: platform, SetFile installed, os.stat(src)
    cpc,            \* /api/cut: "idle" | "submit" | "submitted" | "collect" | "done"
    req,            \* the request body: path, segments, trashOriginal
    birth_epoch,    \* birth_mtime(src)[0]
    fut,            \* the futures, one per submitted segment, by index
    early,          \* as_completed: futures already finished when it was called
    waitq,          \* as_completed: futures finished since, in completion order
    yielded,        \* futures as_completed has yielded
    results,        \* the results list
    origin,         \* history: the segment each entry of results came from (0: none)
    src_state,      \* the source file: "present" | "trashed"
    trash_call,     \* history: send2trash(src) was "not called" | "moved" | "raised"
    cuts_dir,       \* whether {stem}_cuts exists
    outputs,        \* the output files written
    resp            \* the response of /api/cut

cvars == <<cpu_count, host, cpc, req, birth_epoch, fut, early, waitq, yielded,
           results, origin, src_state, trash_call, cuts_dir, outputs, resp>>

VARIABLES
    spc,            \* /api/stream: "idle" | "responded"
    file_size,      \* os.path.getsize(path) of the request being served
    range_header,   \* the Range header: None, or a character sequence
    parsed,         \* what _parse_range gave when it was called
    sresp,          \* the response of /api/stream
    win_start,      \* `start` as generate() captured it
    win_length,     \* `length` as generate() captured it
    gpc,            \* generate(): "none" | "ready" | "loop" | "returned" |
                    \* "failed" (open raised) | "aborted" (client gone)
    remaining,      \* generate(): bytes of the window still to send
    pos,            \* generate(): the offset of the open file
    chunks,         \* the chunks yielded so far: offset and size of each
    disk_size       \* the size of the file on disk now

svars == <<spc, file_size, range_header, parsed, sresp, win_start, win_length,
           gpc, remaining, pos, chunks, disk_size>>

NotCalled == [raised |-> FALSE, error |-> "not called", start |-> 0, end |-> 0]
NoResponse == [status |-> 0, length |-> 0, content_range |-> <<>>,
               accept_ranges |-> "", cache_control |-> ""]

StreamInit ==
    /\ spc = "idle"
    /\ file_size = 0
    /\ range_header = None
    /\ parsed = NotCalled
    /\ sresp = NoResponse
    /\ win_start = 0
    /\ win_length = 0
    /\ gpc = "none"
    /\ remaining = 0
    /\ pos = 0
    /\ chunks = <<>>
    /\ disk_size = 0

\* `if range_header:` is false for None and for the empty string.
Truthy(h) == h # None /\ h # <<>>

\* Mutation of ContentLength: the end offset is taken as exclusive.
ContentLength_Exclusive(start, end) == end - start

\* length = end - start + 1
ContentLength(start, end) == end - start + 1

\* The response `rv` with its headers, for status 200 or 206.
StreamResponse(status, start, end, size) ==
    [status |-> status,
     length |-> ContentLength(start, end),
     content_range |-> IF status = 206 THEN <<start, end, size>> ELSE <<>>,
     accept_ranges |-> "bytes",
     cache_control |-> "no-store"]

\* GET /api/stream up to `return rv`: the generator is handed to the
\* server, not yet run.
api_stream ==
    /\ spc = "idle"
    /\ spc' = "responded"
    /\ UNCHANGED <<cvars, remaining, pos, chunks>>
    /\ \E is_file \in BOOLEAN, size \in Sizes, h \in Headers :
        /\ range_header' = h
        /\ IF ~is_file
           THEN /\ file_size' = 0
                /\ disk_size' = 0
                /\ parsed' = NotCalled
                /\ sresp' = [NoResponse EXCEPT !.status = 400]
                /\ gpc' = "none"
                /\ win_start' = 0
                /\ win_length' = 0
           ELSE /\ file_size' = size
                /\ disk_size' = size
                /\ LET r == IF Truthy(h) THEN ParseRange(h, size) ELSE NotCalled
                       start == IF Truthy(h) THEN r.start ELSE 0
                       end == IF Truthy(h) THEN r.end ELSE size - 1
                   IN  /\ parsed' = r
                       /\ IF r.raised
                          THEN /\ sresp' = [NoResponse EXCEPT !.status = 416]
                               /\ gpc' = "none"
                               /\ win_start' = 0
                               /\ win_length' = 0
                          ELSE /\ sresp' = StreamResponse(IF Truthy(h) THEN 206 ELSE 200,
                                                          start, end, size)
                               /\ gpc' = "ready"
                               /\ win_start' = start
                               /\ win_length' = ContentLength(start, end)

\* Mutation of ReadLen: a full chunk is asked for every time.
ReadLen_Full(rem) == chunk_size

\* read_len = chunk_size if remaining > chunk_size else remaining
ReadLen(rem) == IF rem > chunk_size THEN chunk_size ELSE rem

\* f.read(n) at offset p of a regular file: n bytes, or what is left of
\* the file when that is less.
FileRead(p, n) == Max(0, Min(n, disk_size - p))

\* generate() starts: open, f.seek(start), remaining = length.  The open
\* fails (OSError) when the file is gone.
generate_open ==
    /\ gpc = "ready"
    /\ \E opened \in BOOLEAN :
        IF opened
        THEN /\ pos' = win_start
             /\ remaining' = win_length
             /\ gpc' = IF win_length > 0 THEN "loop" ELSE "returned"
        ELSE /\ gpc' = "failed"
             /\ UNCHANGED <<pos, remaining>>
    /\ UNCHANGED <<cvars, spc, file_size, range_header, parsed, sresp, win_start,
                   win_length, chunks, disk_size>>

\* One turn of `while remaining > 0`: read, stop on no data, else yield.
generate_read ==
    /\ gpc = "loop"
    /\ LET read_len == ReadLen(remaining)
           data == FileRead(pos, read_len)
       IN  IF data = 0
           THEN /\ gpc' = "returned"
                /\ UNCHANGED <<remaining, pos, chunks>>
           ELSE /\ remaining' = remaining - data
                /\ pos' = pos + data
                /\ chunks' = Append(chunks, [offset |-> pos, size |-> data])
                /\ gpc' = IF remaining - data > 0 THEN "loop" ELSE "returned"
    /\ UNCHANGED <<cvars, spc, file_size, range_header, parsed, sresp, win_start,
                   win_length, disk_size>>

\* The client closes the connection: the generator is stopped where it is.
client_gone ==
    /\ gpc \in {"ready", "loop"}
    /\ gpc' = "aborted"
    /\ UNCHANGED <<cvars, spc, file_size, range_header, parsed, sresp, win_start,
                   win_length, remaining, pos, chunks, disk_size>>

\* Another process shortens the file while it is streamed.
file_truncated ==
    /\ gpc \in {"ready", "loop"}
    /\ \E s \in Sizes : s < disk_size /\ disk_size' = s
    /\ UNCHANGED <<cvars, spc, file_size, range_header, parsed, sresp, win_start,
                   win_length, gpc, remaining, pos, chunks>>

\* The request is over; the server waits for the next one.
StreamDone ==
    /\ spc = "responded"
    /\ gpc \in {"none", "returned", "failed", "aborted"}
    /\ spc' = "idle"
    /\ file_size' = 0
    /\ range_header' = None
    /\ parsed' = NotCalled
    /\ sresp' = NoResponse
    /\ win_start' = 0
    /\ win_length' = 0
    /\ gpc' = "none"
    /\ remaining' = 0
    /\ pos' = 0
    /\ chunks' = <<>>
    /\ disk_size' = 0
    /\ UNCHANGED cvars


\* ------------------------------------------------------------- cut inputs
\* The one video on disk, and what a request may name instead.
SrcPath == <<"/", "v", "/", "c", "l", "i", "p", ".", "m", "p", "4">>
GonePath == <<"/", "v", "/", "g", "o", "n", "e", ".", "m", "p", "4">>
RequestPaths == {<<>>, SrcPath, GonePath}

\* The hosts: sys.platform, whether SetFile is installed, os.stat of the
\* source, and whether a directory {stem}_cuts is there already (left by
\* an earlier job).  st_birthtime exists on macOS only (0 here where it
\* is missing); SetFile is a macOS tool.
Hosts ==
    { [platform |-> "linux", setfile |-> FALSE, cuts |-> FALSE,
       st |-> [birthtime |-> 0, mtime |-> 1000]],
      [platform |-> "darwin", setfile |-> FALSE, cuts |-> TRUE,
       st |-> [birthtime |-> 400, mtime |-> 1000]],
      [platform |-> "darwin", setfile |-> TRUE, cuts |-> FALSE,
       st |-> [birthtime |-> 400, mtime |-> 1000]] }

\* Segments a request is built from: well-formed, end before start,
\* too many parts, a part that is no integer.
SegPool ==
    { [start |-> <<"0", ":", "0", "5">>, end |-> <<"0", ":", "1", "5">>],
      [start |-> <<"1", ":", "0", "0", ":", "1", "0">>, end |-> <<" ", "5", "0">>],
      [start |-> <<"1", ":", "2", ":", "3", ":", "4">>, end |-> <<"0", ":", "1", "5">>],
      [start |-> <<"0", ":", "0", "5">>, end |-> <<"x">>] }

RECURSIVE SegLists(_)
SegLists(n) ==
    IF n = 0 THEN {<<>>}
    ELSE LET shorter == SegLists(n - 1)
         IN  shorter \cup {Append(l, s) : l \in {x \in shorter : Len(x) = n - 1}, s \in SegPool}

\* os.cpu_count(): None (written 0 here; both are false in `or`) or >= 1.
CpuCounts == 0 .. MaxCpu

\* Mutation of MAX_WORKERS: a floor of four workers.
MAX_WORKERS_Floor4 == IF cpu_count >= 4 THEN cpu_count ELSE 4

\* MAX_WORKERS = os.cpu_count() or 4
MAX_WORKERS == IF cpu_count # 0 THEN cpu_count ELSE 4

is_mac == host.platform = "darwin"
has_cmd(cmd) == cmd = "SetFile" /\ host.setfile

\* birth_mtime(path)[0]
birth_mtime(s) == IF s.birthtime # 0 THEN s.birthtime ELSE s.mtime

NoCutResponse == [status |-> 0, ok |-> FALSE, error |-> "", results |-> <<>>,
                  trashedOriginal |-> FALSE]
NoRequest == [path |-> <<>>, segments |-> <<>>, trash |-> FALSE]

CutInit ==
    /\ cpu_count \in CpuCounts
    /\ host \in Hosts
    /\ cpc = "idle"
    /\ req = NoRequest
    /\ birth_epoch = 0
    /\ fut = <<>>
    /\ early = {}
    /\ waitq = <<>>
    /\ yielded = {}
    /\ results = <<>>
    /\ origin = <<>>
    /\ src_state = "present"
    /\ trash_call = "not called"
    /\ cuts_dir = host.cuts
    /\ outputs = {}
    /\ resp = NoCutResponse

\* ensure_dir(p): os.makedirs(p, exist_ok=True) leaves the directory in
\* place whether or not it was there.
ensure_dir(exists) == TRUE

\* os.path.isfile(p)
isfile(p) == p = SrcPath /\ src_state = "present"

NSegs == Len(req.segments)
Running == {i \in 1 .. Len(fut) : fut[i].state = "running"}
Queued == {i \in 1 .. Len(fut) : fut[i].state = "queued"}
Finished == {i \in 1 .. Len(fut) : fut[i].state = "finished"}

\* Mutation of outfile_of: the part number is left out of the name.
outfile_of_NoPart(src, i, n, start, end) ==
    LET stem      == stem_from_path(src)
        basedir   == dirname(src)
        outdir    == IF n > 1 THEN path_join(basedir, stem \o <<"_", "c", "u", "t", "s">>)
                     ELSE basedir
        start_tag == safe_time_for_name(start)
        end_tag   == safe_time_for_name(end)
        mp4       == <<".", "m", "p", "4">>
    IN  path_join(outdir, stem \o <<"_", "_">> \o start_tag \o <<"-">> \o end_tag \o mp4)

\* The output path of the i-th of n segments.
outfile_of(src, i, n, start, end) ==
    LET stem      == stem_from_path(src)
        basedir   == dirname(src)
        outdir    == IF n > 1 THEN path_join(basedir, stem \o <<"_", "c", "u", "t", "s">>)
                     ELSE basedir
        start_tag == safe_time_for_name(start)
        end_tag   == safe_time_for_name(end)
        mp4       == <<".", "m", "p", "4">>
    IN  IF n = 1
        THEN path_join(outdir, stem \o <<"_", "_">> \o start_tag \o <<"-">> \o end_tag \o mp4)
        ELSE path_join(outdir, stem \o <<"_", "p", "a", "r", "t">> \o ZeroPad(i, 2)
                               \o <<"_", "_">> \o start_tag \o <<"-">> \o end_tag \o mp4)

\* The arguments the i-th future was submitted with.
StartOf(i) == Strip(req.segments[i].start)
EndOf(i) == Strip(req.segments[i].end)
OutFile(i) == outfile_of(req.path, i, NSegs, StartOf(i), EndOf(i))

\* Mutation of InvalidInput: an empty segment list is let through.
InvalidInput_NoSegCheck(src, segments) ==
    IF src = <<>> \/ ~isfile(src) THEN "Invalid path" ELSE ""

\* The two checks of the request: the error they answer with, "" when
\* the request passes.
InvalidInput(src, segments) ==
    IF src = <<>> \/ ~isfile(src) THEN "Invalid path"
    ELSE IF segments = <<>> THEN "No segments"
    ELSE ""

\* POST /api/cut, from the request to the creation of the pool.
api_cut ==
    /\ cpc = "idle"
    /\ \E path \in RequestPaths, segments \in SegLists(MaxSegs), trash \in BOOLEAN :
        /\ req' = [path |-> path, segments |-> segments, trash |-> trash]
        /\ IF InvalidInput(path, segments) # ""
           THEN /\ resp' = [NoCutResponse EXCEPT !.status = 400,
                                                 !.error = InvalidInput(path, segments)]
                /\ cpc' = "done"
                /\ UNCHANGED <<birth_epoch, cuts_dir>>
           ELSE /\ birth_epoch' = birth_mtime(host.st)
                /\ cuts_dir' = IF Len(segments) > 1 THEN ensure_dir(cuts_dir)
                                ELSE cuts_dir
                /\ cpc' = "submit"
                /\ resp' = resp
    /\ UNCHANGED <<svars, cpu_count, host, fut, early, waitq, yielded, results, origin,
                   src_state, trash_call, outputs>>

\* One turn of the submitting loop: exe.submit(run_ffmpeg_segment, ...).
Submit ==
    /\ cpc = "submit"
    /\ Len(fut) < NSegs
    /\ fut' = Append(fut, [state |-> "queued", outfile |-> OutFile(Len(fut) + 1),
                           parse_ok |-> FALSE, ssec |-> 0,
                           esec |-> 0, crt_epoch |-> 0, mod_epoch |-> 0,
                           failed |-> FALSE, error |-> "", literal |-> <<>>,
                           tools |-> {}])
    /\ cpc' = IF Len(fut) + 1 = NSegs THEN "submitted" ELSE "submit"
    /\ UNCHANGED <<svars, cpu_count, host, req, birth_epoch, early, waitq, yielded, results,
                   origin, src_state, trash_call, cuts_dir, outputs, resp>>

\* Mutation of PoolHasRoom: one worker thread too few.
PoolHasRoom_OneLess == Cardinality(Running) < MAX_WORKERS - 1

\* ThreadPoolExecutor(max_workers=MAX_WORKERS): a queued call starts only
\* on a free worker thread.
PoolHasRoom == Cardinality(Running) < MAX_WORKERS

\* Mutation of SegmentEpochs: the modification instant is not held at the
\* creation instant.
SegmentEpochs_NoMax(creation_epoch, ssec, esec) ==
    [crt |-> creation_epoch + ssec, mod |-> creation_epoch + esec]

\* Mutation of SegmentEpochs: the instants are counted from the epoch, not
\* from the birth of the source.
SegmentEpochs_Relative(creation_epoch, ssec, esec) ==
    [crt |-> ssec, mod |-> Max(creation_epoch + esec, ssec)]

\* run_ffmpeg_segment: crt_epoch and mod_epoch.
SegmentEpochs(creation_epoch, ssec, esec) ==
    LET crt_epoch == creation_epoch + ssec
    IN  [crt |-> crt_epoch, mod |-> Max(creation_epoch + esec, crt_epoch)]

\* A future that finishes after as_completed was called is handed to its
\* waiter, in completion order.
Notify(i) == waitq' = IF cpc = "collect" THEN Append(waitq, i) ELSE waitq

\* A worker thread takes the oldest queued call and runs run_ffmpeg_segment
\* up to the cut tool: both timecodes are parsed, start first.
WorkerStart ==
    /\ Queued # {}
    /\ PoolHasRoom
    /\ \E i \in {CHOOSE q \in Queued : \A r \in Queued : q <= r} :
       \E ps \in {parse_timecode(StartOf(i))}, pe \in {parse_timecode(EndOf(i))} :
           IF ps.raised \/ pe.raised
           THEN /\ fut' = [fut EXCEPT ![i] =
                             [@ EXCEPT !.state = "finished", !.failed = TRUE,
                                       !.error = IF ps.raised THEN ps.error ELSE pe.error,
                                       !.literal = IF ps.raised THEN ps.literal
                                                   ELSE pe.literal]]
                /\ Notify(i)
           ELSE \E ep \in {SegmentEpochs(birth_epoch, ps.value, pe.value)} :
                    /\ fut' = [fut EXCEPT ![i] =
                                 [@ EXCEPT !.state = "running", !.parse_ok = TRUE,
                                           !.ssec = ps.value, !.esec = pe.value,
                                           !.crt_epoch = ep.crt, !.mod_epoch = ep.mod]]
                    /\ waitq' = waitq
    /\ UNCHANGED <<svars, cpu_count, host, cpc, req, birth_epoch, early, yielded, results,
                   origin, src_state, trash_call, cuts_dir, outputs, resp>>

\* The rest of run_ffmpeg_segment: the cut tool runs (exit 0, a nonzero
\* exit, or it cannot be started), then touch sets the modification time
\* and, on macOS with SetFile, SetFile the creation time.
WorkerFinish ==
    \E i \in Running, outcome \in {"ok", "nonzero", "oserror"} :
        LET f == fut[i]
        IN  /\ IF outcome = "ok"
               THEN /\ fut' = [fut EXCEPT ![i] =
                                 [f EXCEPT !.state = "finished",
                                           !.tools =
                                               {"ffmpeg", "touch"} \cup
                                               (IF is_mac /\ has_cmd("SetFile")
                                                THEN {"SetFile"} ELSE {})]]
                    /\ outputs' = outputs \cup {f.outfile}
               ELSE /\ fut' = [fut EXCEPT ![i] =
                                 [f EXCEPT !.state = "finished", !.failed = TRUE,
                                           !.tools = {"ffmpeg"},
                                           !.error = IF outcome = "nonzero"
                                                     THEN "CalledProcessError"
                                                     ELSE "OSError"]]
                    /\ outputs' = outputs
            /\ Notify(i)
            /\ UNCHANGED <<svars, cpu_count, host, cpc, req, birth_epoch, early, yielded,
                           results, origin, src_state, trash_call, cuts_dir, resp>>

\* as_completed(futures) is called: the futures finished by now come first.
as_completed ==
    /\ cpc = "submitted"
    /\ cpc' = "collect"
    /\ early' = Finished
    /\ UNCHANGED <<svars, cpu_count, host, req, birth_epoch, fut, waitq, yielded, results,
                   origin, src_state, trash_call, cuts_dir, outputs, resp>>

\* Mutation of ResultEntry: an exception is not told apart from a result.
ResultEntry_AlwaysOk(f, out_path) ==
    [ok |-> TRUE, output |-> out_path, creation_time |-> fmt_iso_utc(f.crt_epoch),
     birth |-> f.crt_epoch, modified |-> f.mod_epoch, error |-> "", detail |-> <<>>]

\* The entry the collecting loop appends for a finished future.  `detail`
\* is what the error text quotes: a CalledProcessError its command line,
\* which ends with the output path; int() the text it could not read.
ResultEntry(f, out_path) ==
    IF ~f.failed
    THEN [ok |-> TRUE, output |-> out_path, creation_time |-> fmt_iso_utc(f.crt_epoch),
          birth |-> f.crt_epoch, modified |-> f.mod_epoch, error |-> "", detail |-> <<>>]
    ELSE IF f.error = "CalledProcessError"
    THEN [ok |-> FALSE, output |-> <<>>, creation_time |-> <<>>, birth |-> 0,
          modified |-> 0, error |-> "ffmpeg failed", detail |-> out_path]
    ELSE [ok |-> FALSE, output |-> <<>>, creation_time |-> <<>>, birth |-> 0,
          modified |-> 0, error |-> f.error, detail |-> f.literal]

\* One turn of `for fut in as_completed(futures)`.
Collect ==
    /\ cpc = "collect"
    /\ \E i \in 1 .. Len(fut) :
        /\ IF early # {} THEN i \in early ELSE (waitq # <<>> /\ i = Head(waitq))
        /\ early' = early \ {i}
        /\ waitq' = IF early # {} THEN waitq ELSE Tail(waitq)
        /\ yielded' = yielded \cup {i}
        /\ results' = Append(results, ResultEntry(fut[i], fut[i].outfile))
        /\ origin' = Append(origin, i)
    /\ UNCHANGED <<svars, cpu_count, host, cpc, req, birth_epoch, fut, src_state, trash_call, cuts_dir,
                   outputs, resp>>

\* Mutation of JoinDone: the loop is left after the first result.
JoinDone_First == yielded # {}

\* The collecting loop and the `with` block are left once every future was
\* yielded.
JoinDone == yielded = 1 .. Len(fut)

\* Mutation of TrashWanted: one successful segment is enough.
TrashWanted_Any(trash, rs) == trash /\ \E j \in 1 .. Len(rs) : rs[j].ok

\* `if trash and all(r.get("ok") for r in results)`
TrashWanted(trash, rs) == trash /\ \A j \in 1 .. Len(rs) : rs[j].ok

\* Mutation of TrashFailed: the failure is swallowed.
TrashFailed_Silent(rs) == [trashed |-> FALSE, results |-> rs]

\* The `except` branch of the move to trash.
TrashFailed(rs) ==
    [trashed |-> FALSE,
     results |-> Append(rs, [ok |-> FALSE, output |-> <<>>, creation_time |-> <<>>,
                             birth |-> 0, modified |-> 0, error |-> "trash failed",
                             detail |-> <<>>])]

\* After the pool: the move to trash, which may fail, and the response.
Respond ==
    /\ cpc = "collect"
    /\ JoinDone
    /\ cpc' = "done"
    /\ IF TrashWanted(req.trash, results)
       THEN \E moved \in BOOLEAN :
              LET t == IF moved THEN [trashed |-> TRUE, results |-> results]
                       ELSE TrashFailed(results)
              IN  /\ src_state' = IF moved THEN "trashed" ELSE src_state
                  /\ trash_call' = IF moved THEN "moved" ELSE "raised"
                  /\ results' = t.results
                  /\ origin' = IF moved THEN origin ELSE Append(origin, 0)
                  /\ resp' = [status |-> 200, ok |-> TRUE, error |-> "",
                              results |-> t.results, trashedOriginal |-> t.trashed]
       ELSE /\ resp' = [status |-> 200, ok |-> TRUE, error |-> "",
                        results |-> results, trashedOriginal |-> FALSE]
            /\ UNCHANGED <<src_state, trash_call, results, origin>>
    /\ UNCHANGED <<svars, cpu_count, host, req, birth_epoch, fut, early, waitq, yielded,
                   cuts_dir, outputs>>

vars == <<svars, cvars>>

Init == CutInit /\ StreamInit

Next ==
    \/ api_cut
    \/ Submit
    \/ WorkerStart
    \/ WorkerFinish
    \/ as_completed
    \/ Collect
    \/ Respond

Spec == Init /\ [][Next]_vars

\* When the submitting loop, a worker thread and the collecting loop can
\* take their next step: the guards of Submit, WorkerStart and Collect,
\* each of which changes the state when it is taken.
SubmitEnabled == cpc = "submit" /\ Len(fut) < NSegs
WorkerStartEnabled == Queued # {} /\ PoolHasRoom
CollectEnabled == cpc = "collect" /\ (early # {} \/ waitq # <<>>)

FairInit ==
    /\ CutInit
    /\ StreamInit
    /\ cpu_count \in {1, 2}
    /\ host.platform = "linux"
    /\ ~host.cuts

\* /api/cut on a Linux host with one or two CPUs, its threads scheduled
\* fairly: the thread of an accepted request goes on submitting,
\* collecting and answering, and a free worker thread takes the next
\* queued call.  The weak fairness of Submit, WorkerStart and Collect is
\* written out with their guards.  No fairness is put on WorkerFinish: the
\* cut tool is an external process that may run for ever.
CutFairSpec ==
    /\ FairInit
    /\ [][Next]_vars
    /\ ([]<>~SubmitEnabled \/ []<><<Submit>>_vars)
    /\ ([]<>~WorkerStartEnabled \/ []<><<WorkerStart>>_vars)
    /\ ([]<>~CollectEnabled \/ []<><<Collect>>_vars)
    /\ WF_vars(as_completed)
    /\ WF_vars(Respond)

\* /api/stream alone, on a host that serves no cut.
StreamNext ==
    \/ api_stream
    \/ generate_open
    \/ generate_read
    \/ client_gone
    \/ file_truncated
    \/ StreamDone

StreamOnlyInit ==
    /\ StreamInit
    /\ CutInit
    /\ cpu_count = 0
    /\ host.platform = "linux"
    /\ ~host.cuts

StreamSpec == StreamOnlyInit /\ [][StreamNext]_vars

\* The server keeps iterating the generator it was handed until the
\* generator returns or the client is gone.
StreamFairSpec ==
    /\ StreamOnlyInit
    /\ [][StreamNext]_vars
    /\ WF_vars(generate_open)
    /\ WF_vars(generate_read)

\* ------------------------------------------------------------------ claims
\* /api/cut answered a well-formed request.
Answered == cpc = "done" /\ resp.status = 200

\* A timecode of segment i does not parse.
Malformed(i) ==
    parse_timecode(StartOf(i)).raised \/ parse_timecode(EndOf(i)).raised

FailedSegs == {i \in 1 .. Len(fut) : fut[i].failed}
OkEntries(rs) == {j \in 1 .. Len(rs) : rs[j].ok}
FailedEntries(rs) == {j \in 1 .. Len(rs) : ~rs[j].ok}

\* C1: for a well-formed request with n >= 1 segments of which k fail and
\* trashOriginal false, the response holds exactly n entries, k of them
\* failed and n-k successful, every segment that does not fail was cut,
\* a malformed segment is among the failed, and the envelope says ok.
C1_PartialFailure ==
    (Answered /\ ~req.trash) =>
        /\ Len(fut) = NSegs
        /\ Len(resp.results) = NSegs
        /\ Cardinality(FailedEntries(resp.results)) = Cardinality(FailedSegs)
        /\ Cardinality(OkEntries(resp.results)) = NSegs - Cardinality(FailedSegs)
        /\ \A i \in 1 .. NSegs :
              /\ Malformed(i) => fut[i].failed
              /\ ~Malformed(i) => "ffmpeg" \in fut[i].tools
              /\ ~fut[i].failed => OutFile(i) \in outputs
        /\ resp.ok

\* Two segments, the second malformed: one failed entry, one cut made.
C1_Witness ==
    /\ Answered /\ ~req.trash
    /\ NSegs = 2
    /\ Malformed(2) /\ ~fut[1].failed
    /\ Cardinality(FailedEntries(resp.results)) = 1
    /\ OutFile(1) \in outputs

\* C2: the source is moved to trash only if trashOriginal is set and every
\* submitted segment has finished successfully; trashedOriginal is true
\* only when the move happened.
C2_TrashOnlyAfterAllOk ==
    /\ (trash_call # "not called" \/ src_state = "trashed") =>
          /\ req.trash
          /\ Len(fut) = NSegs
          /\ \A i \in 1 .. NSegs : fut[i].state = "finished" /\ ~fut[i].failed
    /\ src_state = "trashed" => trash_call = "moved"
    /\ resp.trashedOriginal => (trash_call = "moved" /\ src_state = "trashed")

\* The source of a two-segment job was moved to trash.
C2_Witness ==
    /\ Answered /\ NSegs = 2
    /\ src_state = "trashed" /\ resp.trashedOriginal

\* C3: when trashOriginal is set, all n segments succeeded and the move to
\* trash fails, the response holds the n successful entries and then one
\* failed entry for the trash failure, trashedOriginal is false, the
\* source remains and every output is still there.
C3_TrashFailure ==
    (Answered /\ trash_call = "raised") =>
        /\ req.trash /\ FailedSegs = {}
        /\ Len(resp.results) = NSegs + 1
        /\ \A j \in 1 .. NSegs : resp.results[j].ok
        /\ ~resp.results[NSegs + 1].ok
        /\ resp.results[NSegs + 1].error = "trash failed"
        /\ ~resp.trashedOriginal
        /\ src_state = "present"
        /\ \A i \in 1 .. NSegs : OutFile(i) \in outputs

\* Both segments were cut and the move to trash failed.
C3_Witness ==
    /\ Answered /\ trash_call = "raised"
    /\ NSegs = 2
    /\ Len(resp.results) = 3

\* An entry names its segment: its output path, or the command line its
\* error quotes, is that of the segment it came from.
NamesItsSegment(j) ==
    \/ resp.results[j].output = OutFile(origin[j])
    \/ resp.results[j].detail = OutFile(origin[j])

\* C4: every per-segment entry of the returned list can be attributed to
\* its segment: the list is in submission order, or each entry carries a
\* reference to its own segment.
C4_Attributable ==
    Answered =>
        \/ \A j \in 1 .. Len(origin), k \in 1 .. Len(origin) :
              (j < k /\ origin[j] # 0 /\ origin[k] # 0) => origin[j] < origin[k]
        \/ \A j \in 1 .. Len(origin) : origin[j] # 0 => NamesItsSegment(j)

\* C5: the response is never sent, and the trash decision never taken,
\* while a submitted segment is queued or running: every segment has its
\* result by then.
C5_Join ==
    (Answered \/ trash_call # "not called") =>
        /\ Len(fut) = NSegs
        /\ \A i \in 1 .. NSegs : fut[i].state = "finished" /\ i \in yielded
        /\ \A i \in 1 .. NSegs : \E j \in 1 .. Len(origin) : origin[j] = i

\* The response of a job whose second segment finished first.
C5_Witness ==
    /\ Answered
    /\ NSegs = 2
    /\ origin = <<2, 1>>

\* C6 as stated: the exports running at once never exceed the pool size,
\* and the pool size is the CPU count with a minimum of 4.
C6_Original ==
    /\ Cardinality(Running) <= MAX_WORKERS
    /\ Running # {} => MAX_WORKERS = Max(cpu_count, 4)

\* C6, amended: the exports running at once never exceed the pool size,
\* which is the CPU count, or 4 when the count is unknown.
C6_PoolBound ==
    Cardinality(Running) <= (IF cpu_count = 0 THEN 4 ELSE cpu_count)

\* One CPU: one segment runs while the next waits in the queue.
C6_Witness ==
    /\ cpu_count = 1
    /\ Cardinality(Running) = 1
    /\ Queued # {}

\* C7: with baseline B and a segment whose start and end parse to s and e,
\* the creation instant is B+s and the modification instant is
\* max(B+e, B+s), so never earlier than the creation instant.
C7_SegmentEpochs ==
    \A i \in 1 .. Len(fut) :
        fut[i].parse_ok =>
            LET s == fut[i].ssec
                e == fut[i].esec
            IN  /\ fut[i].crt_epoch = birth_epoch + s
                /\ fut[i].mod_epoch =
                       (IF e < s THEN birth_epoch + s ELSE birth_epoch + e)
                /\ fut[i].mod_epoch >= fut[i].crt_epoch

\* Start 1:00:10, end 50: the end lies before the start, and the
\* modification instant is the creation instant, 1000 + 3610.
C7_Witness ==
    /\ birth_epoch = 1000
    /\ \E i \in 1 .. Len(fut) :
          /\ fut[i].state = "running"
          /\ StartOf(i) = <<"1", ":", "0", "0", ":", "1", "0">>
          /\ EndOf(i) = <<"5", "0">>
          /\ fut[i].ssec = 3610 /\ fut[i].esec = 50
          /\ fut[i].crt_epoch = 4610
          /\ fut[i].mod_epoch = 4610

\* _parse_range was called for the request now answered, on a file of
\* positive size.
Resolved ==
    /\ spc = "responded"
    /\ sresp.status \in {206, 416}
    /\ file_size > 0

AllDigits(s) == s # <<>> /\ \A i \in 1 .. Len(s) : s[i] \in Digits

\* h is `bytes=<g1>-<g2>` with k digits in g1: what is left of h after
\* `bytes=`, k characters and a dash.
AfterDash(h, k) == SubSeq(h, Len(BytesEq) + k + 2, Len(h))
StartDigits(h, k) == SubSeq(h, Len(BytesEq) + 1, Len(BytesEq) + k)
HasForm(h, k) ==
    /\ Len(h) >= Len(BytesEq) + k + 1
    /\ SubSeq(h, 1, Len(BytesEq)) = BytesEq
    /\ h[Len(BytesEq) + k + 1] = "-"

\* C8: for `bytes=a-b` with both bounds present and a file of size > 0, the
\* resolver returns exactly (a, min(b, size-1)) when a < size and a <= b,
\* and fails when a >= size or a > b.
C8_BothBounds ==
    Resolved =>
        \A k \in 1 .. Len(range_header) :
            (/\ HasForm(range_header, k)
             /\ AllDigits(StartDigits(range_header, k))
             /\ AllDigits(AfterDash(range_header, k))) =>
                LET a == DecVal(StartDigits(range_header, k))
                    b == DecVal(AfterDash(range_header, k))
                IN  IF a < file_size /\ a <= b
                    THEN /\ ~parsed.raised
                         /\ parsed.start = a
                         /\ parsed.end = (IF b <= file_size - 1 THEN b ELSE file_size - 1)
                    ELSE parsed.raised

\* `bytes=1-3` on a 2-byte file: the end is clamped to the last byte.
C8_Witness ==
    /\ Resolved
    /\ file_size = 2
    /\ range_header = BytesEq \o <<"1", "-", "3">>
    /\ ~parsed.raised /\ parsed.start = 1 /\ parsed.end = 1

\* C9: for the suffix form `bytes=-N` and a file of size > 0, the resolver
\* returns (size-N, size-1) whenever 0 < N <= size, and fails when N <= 0.
C9_Suffix ==
    (/\ Resolved
     /\ HasForm(range_header, 0)
     /\ AllDigits(AfterDash(range_header, 0))) =>
        LET n == DecVal(AfterDash(range_header, 0))
        IN  /\ (0 < n /\ n <= file_size) =>
                   /\ ~parsed.raised
                   /\ parsed.start = file_size - n
                   /\ parsed.end = file_size - 1
            /\ n <= 0 => parsed.raised

\* `bytes=-3` on a 4-byte file gives the last three bytes.
C9_Witness ==
    /\ Resolved
    /\ file_size = 4
    /\ range_header = BytesEq \o <<"-", "3">>
    /\ ~parsed.raised /\ parsed.start = 1 /\ parsed.end = 3

\* C10: for every header value and every file size > 0, a window the
\* resolver returns satisfies 0 <= start <= end <= size-1.
C10_WindowInFile ==
    (Resolved /\ ~parsed.raised) =>
        /\ 0 <= parsed.start
        /\ parsed.start <= parsed.end
        /\ parsed.end <= file_size - 1

\* A suffix longer than the file (`bytes=-10`, 3 bytes) is held at offset 0.
C10_Witness ==
    /\ Resolved
    /\ file_size = 3
    /\ range_header = BytesEq \o <<"-", "1", "0">>
    /\ ~parsed.raised /\ parsed.start = 0 /\ parsed.end = 2

\* /api/stream answered a request for an existing regular file.
Served == spc = "responded" /\ sresp.status # 400

\* C11: for an existing regular file the status follows from the Range
\* header: without one it is 200 and the whole file is served; with one
\* that resolves it is 206 and Content-Range gives the resolved window and
\* the size; with one that does not resolve, whatever its value, it is 416
\* and nothing is streamed.
C11_StatusByHeader ==
    Served =>
        IF range_header = None
        THEN sresp.status = 200 /\ win_start = 0 /\ win_length = file_size
        ELSE LET r == ParseRange(range_header, file_size)
             IN  IF r.raised
                 THEN sresp.status = 416 /\ gpc = "none" /\ chunks = <<>>
                 ELSE /\ sresp.status = 206
                      /\ sresp.content_range = <<r.start, r.end, file_size>>

\* C12: every 200 or 206 response of /api/stream has a Content-Length of
\* end-start+1 of the window it serves, which is the full file size when
\* no Range header was given, and has `Accept-Ranges: bytes` and the
\* no-store cache directive.
C12_StreamHeaders ==
    (spc = "responded" /\ sresp.status \in {200, 206}) =>
        /\ sresp.status = 206 =>
              /\ sresp.length = parsed.end - parsed.start + 1
              /\ sresp.length = sresp.content_range[2] - sresp.content_range[1] + 1
        /\ sresp.status = 200 => sresp.length = (file_size - 1) - 0 + 1
        /\ range_header = None => sresp.length = file_size
        /\ win_length = sresp.length
        /\ sresp.accept_ranges = "bytes"
        /\ sresp.cache_control = "no-store"

\* `bytes=1-3` on a 4-byte file: 206 with Content-Length 3.
C12_Witness ==
    /\ spc = "responded" /\ sresp.status = 206
    /\ file_size = 4
    /\ range_header = BytesEq \o <<"1", "-", "3">>
    /\ sresp.length = 3
    /\ sresp.accept_ranges = "bytes" /\ sresp.cache_control = "no-store"

\* /api/cut accepted the request: it passed both checks of its input.
Accepted == cpc \in {"submit", "submitted", "collect"} \/ Answered

CutsDir == <<"/", "v", "/", "c", "l", "i", "p", "_", "c", "u", "t", "s">>
IsPrefix(p, s) == Len(p) <= Len(s) /\ SubSeq(s, 1, Len(p)) = p

\* The {start}-{end} of each segment of the pool as its file name shows
\* it: the timecodes without surrounding blanks, ":" written "-".
NameTags ==
    [s \in SegPool |-> Replace(Strip(s.start), ":", "-") \o <<"-">>
                       \o Replace(Strip(s.end), ":", "-")]

\* C13: a request with exactly one segment writes beside the source and
\* creates no {stem}_cuts directory; a request with two or more segments
\* has {stem}_cuts (whether or not it was there before) and writes every
\* output into it, the i-th segment under {stem}_part{NN}__{start}-{end}
\* with NN = i on two digits, and no two segments share an output path.
C13_OutputPaths ==
    Accepted =>
        /\ outputs \subseteq {fut[i].outfile : i \in 1 .. Len(fut)}
        /\ NSegs = 1 =>
              /\ cuts_dir = host.cuts
              /\ \A i \in 1 .. Len(fut) :
                    fut[i].outfile =
                        <<"/", "v", "/", "c", "l", "i", "p", "_", "_">>
                        \o NameTags[req.segments[i]] \o <<".", "m", "p", "4">>
        /\ NSegs >= 2 =>
              /\ cuts_dir
              /\ \A i \in 1 .. Len(fut) :
                    fut[i].outfile =
                        CutsDir \o <<"/", "c", "l", "i", "p", "_", "p", "a", "r", "t", "0",
                                     DigitChar(i), "_", "_">>
                        \o NameTags[req.segments[i]] \o <<".", "m", "p", "4">>
              /\ \A i \in 1 .. Len(fut), j \in 1 .. Len(fut) :
                    i # j => fut[i].outfile # fut[j].outfile

\* Two equal segments, both cut, into a directory that was there before:
\* two different files in it.
C13_Witness ==
    /\ Answered /\ NSegs = 2
    /\ host.cuts /\ cuts_dir
    /\ req.segments[1] = req.segments[2]
    /\ Cardinality(outputs) = 2
    /\ \A o \in outputs : IsPrefix(CutsDir \o <<"/">>, o)

\* The request of /api/cut fails one of the two checks: no path, a path
\* that names no file, or no segment.
BadRequest == req.path # SrcPath \/ req.segments = <<>>

\* C14: a request whose path is missing or names no existing file, or
\* whose segment list is empty, is answered 400 with an error, and has no
\* effect: no directory is created, no worker submitted, no tool run, no
\* output or timestamp written, and the source is not trashed.
C14_RejectedNoEffect ==
    (cpc # "idle" /\ BadRequest) =>
        /\ cpc = "done"
        /\ resp.status = 400 /\ ~resp.ok /\ resp.error # ""
        /\ cuts_dir = host.cuts
        /\ fut = <<>>
        /\ results = <<>>
        /\ outputs = {}
        /\ birth_epoch = 0
        /\ src_state = "present" /\ trash_call = "not called"
        /\ ~resp.trashedOriginal

\* An existing file and no segment, trashOriginal set: answered 400.
C14_Witness ==
    /\ cpc = "done" /\ resp.status = 400
    /\ req.path = SrcPath /\ req.segments = <<>> /\ req.trash
    /\ resp.error = "No segments"
    /\ fut = <<>> /\ src_state = "present"

\* _parse_range was called for the request now answered.
RangeParsed == spc = "responded" /\ sresp.status \in {206, 416}

DigitsOrEmpty(s) == \A i \in 1 .. Len(s) : s[i] \in Digits

\* h is exactly `bytes=<start>-<end>`, the bounds decimal and at most one
\* of them empty.
ExactForm(h) ==
    \E k \in 0 .. Len(h) :
        /\ HasForm(h, k)
        /\ DigitsOrEmpty(StartDigits(h, k))
        /\ DigitsOrEmpty(AfterDash(h, k))
        /\ ~(k = 0 /\ AfterDash(h, k) = <<>>)

\* C15: the resolver accepts a header only when its value is
\* `bytes=<start>-<end>` with decimal bounds of which at most one is
\* empty; any other value (both bounds empty, another unit, extra
\* characters or a second range after <end>) fails.
C15_ExactForm ==
    (RangeParsed /\ ~parsed.raised) => ExactForm(range_header)

\* The scenario of C16: the source clip.mp4 born at epoch 1000, the one
\* segment 0:05 to 0:15, trashOriginal false, the cut made and answered.
C16_Scenario ==
    /\ Answered
    /\ req.path = SrcPath /\ birth_epoch = 1000
    /\ req.segments = <<[start |-> <<"0", ":", "0", "5">>, end |-> <<"0", ":", "1", "5">>]>>
    /\ ~req.trash
    /\ ~fut[1].failed

\* What C16 says of the scenario apart from the creation time: the single
\* output clip__0-05-0-15.mp4 beside the source, modification epoch 1015,
\* trashedOriginal false.
C16_Output ==
    /\ outputs = {<<"/", "v", "/", "c", "l", "i", "p", "_", "_", "0", "-", "0", "5", "-", "0", "-", "1", "5", ".", "m", "p", "4">>}
    /\ Len(resp.results) = 1
    /\ resp.results[1].ok
    /\ resp.results[1].output = <<"/", "v", "/", "c", "l", "i", "p", "_", "_", "0", "-", "0", "5", "-", "0", "-", "1", "5", ".", "m", "p", "4">>
    /\ resp.results[1].modified = 1015
    /\ fut[1].mod_epoch = 1015
    /\ cuts_dir = host.cuts
    /\ ~resp.trashedOriginal /\ src_state = "present"

\* C16 as stated: in the scenario the embedded creation time is
\* 1970-01-01T00:00:15Z, epoch second 15.
C16_Original ==
    C16_Scenario =>
        /\ C16_Output
        /\ resp.results[1].creation_time = <<"1", "9", "7", "0", "-", "0", "1", "-", "0", "1", "T", "0", "0", ":", "0", "0", ":", "1", "5", "Z">>
        /\ fut[1].crt_epoch = 15

\* C16, amended: in the scenario the embedded creation time is
\* 1970-01-01T00:16:45Z, epoch second 1005 (birth epoch plus the start
\* offset); the output name, the modification epoch 1015 and
\* trashedOriginal false are as stated.
C16_EndToEnd ==
    C16_Scenario =>
        /\ C16_Output
        /\ resp.results[1].creation_time = <<"1", "9", "7", "0", "-", "0", "1", "-", "0", "1", "T", "0", "0", ":", "1", "6", ":", "4", "5", "Z">>
        /\ fut[1].crt_epoch = 1005

\* The scenario, answered, on a host without SetFile.
C16_Witness ==
    /\ C16_Scenario
    /\ host.platform = "linux" /\ ~host.cuts
    /\ fut[1].tools = {"ffmpeg", "touch"}
    /\ resp.results[1].birth = 1005

\* The text is an integer as a timecode part must be: blanks around an
\* optional sign and digits.
IntegerText(text) ==
    LET t    == Strip(text)
        body == IF t # <<>> /\ t[1] \in {"+", "-"} THEN Tail(t) ELSE t
    IN  body # <<>> /\ \A k \in 1 .. Len(body) : body[k] \in Digits

\* A malformed timecode: not one to three parts, or a part that is no
\* integer.
BadTimecode(tc) ==
    LET parts == Split(Strip(tc), ":")
    IN  \/ Len(parts) \notin 1 .. 3
        \/ \E k \in 1 .. Len(parts) : ~IntegerText(parts[k])

\* The segments of the pool with a malformed start or end.
BadSegs == {s \in SegPool : BadTimecode(s.start) \/ BadTimecode(s.end)}

\* C17: a segment whose start or end timecode is malformed fails while
\* its worker parses it, before anything else is done for it: it never
\* runs the cut tool or a timestamp utility, nothing is written for it,
\* and it yields exactly one result entry, a failed one.
C17_MalformedFailsFirst ==
    \A i \in 1 .. Len(fut) :
        req.segments[i] \in BadSegs =>
            /\ fut[i].tools = {}
            /\ fut[i].state # "running"
            /\ ~fut[i].parse_ok
            /\ fut[i].crt_epoch = 0 /\ fut[i].mod_epoch = 0
            /\ fut[i].outfile \notin outputs
            /\ fut[i].state = "finished" => fut[i].failed
            /\ Cardinality({j \in 1 .. Len(origin) : origin[j] = i}) <= 1
            /\ Answered =>
                  \E j \in 1 .. Len(origin) :
                      /\ origin[j] = i
                      /\ ~resp.results[j].ok
                      /\ \A k \in 1 .. Len(origin) : origin[k] = i => k = j

\* Two segments, the first with four parts and the second with the end
\* "x": two failed entries, no tool run, nothing written.
C17_Witness ==
    /\ Answered /\ NSegs = 2
    /\ req.segments[1].start = <<"1", ":", "2", ":", "3", ":", "4">>
    /\ req.segments[2].end = <<"x">>
    /\ Len(resp.results) = 2
    /\ ~resp.results[1].ok /\ ~resp.results[2].ok
    /\ fut[1].tools = {} /\ fut[2].tools = {}
    /\ outputs = {}

RECURSIVE SumSizes(_)
SumSizes(cs) == IF cs = <<>> THEN 0 ELSE cs[1].size + SumSizes(Tail(cs))

GenStopped == gpc \in {"returned", "failed", "aborted"}

\* The chunks sent so far: each non-empty and of at most 1 MiB, the first
\* from offset start and each next one from where the one before ended;
\* once the loop has returned on an unchanged file they add up to the
\* window length, the advertised Content-Length, and they add up to less
\* only when the file had no more data.
C18_Chunks ==
    /\ \A k \in 1 .. Len(chunks) :
          /\ chunks[k].size >= 1
          /\ chunks[k].size <= 1024 * 1024
          /\ chunks[k].offset =
                 (IF k = 1 THEN win_start ELSE chunks[k - 1].offset + chunks[k - 1].size)
    /\ SumSizes(chunks) <= win_length
    /\ (gpc = "returned" /\ disk_size = file_size) =>
          /\ SumSizes(chunks) = win_length
          /\ win_length = sresp.length
    /\ (gpc = "returned" /\ SumSizes(chunks) < win_length) =>
          disk_size < win_start + win_length

\* C18: for a served window of length L, on a file that does not change
\* and with a client that stays connected, the stream loop terminates
\* after yielding chunks of at most 1 MiB each, non-empty, in order from
\* offset start, whose sizes sum to L; when the file has no more data
\* early the loop stops as well.
C18_Generate ==
    /\ []C18_Chunks
    /\ (gpc \in {"ready", "loop"}) ~> GenStopped

\* A file of 2 MiB + 1 bytes served whole: two chunks of 1 MiB and one of
\* one byte.
C18_Witness ==
    /\ gpc = "returned"
    /\ sresp.status = 200
    /\ file_size = 2 * 1024 * 1024 + 1 /\ disk_size = file_size
    /\ Len(chunks) = 3
    /\ chunks[1] = [offset |-> 0, size |-> 1024 * 1024]
    /\ chunks[2] = [offset |-> 1024 * 1024, size |-> 1024 * 1024]
    /\ chunks[3] = [offset |-> 2 * 1024 * 1024, size |-> 1]

\* Every invocation of an external tool terminates: no segment stays
\* running for ever.
ToolsTerminate == \A i \in 1 .. MaxSegs : []<>(i \notin Running)

\* C19: under fair scheduling and for any number of segments, more than
\* the pool has workers included: if every external tool invocation
\* terminates, every submitted segment is eventually taken by a worker
\* and the request is eventually answered, once; if some cut-tool
\* invocation never terminates the request is never answered.
C19_Liveness ==
    /\ ToolsTerminate =>
          /\ \A i \in 1 .. MaxSegs : (i \in Queued) ~> (i \notin Queued)
          /\ Accepted ~> Answered
    /\ \A i \in 1 .. MaxSegs : <>[](i \in Running) => [](cpc # "done")
    /\ [][resp # NoCutResponse => resp' = resp]_vars

\* One worker and two segments: the second waited in the queue while the
\* first was cut, both were taken, and the request is answered.
C19_Witness ==
    /\ Answered
    /\ cpu_count = 1 /\ NSegs = 2
    /\ fut[1].tools # {} /\ fut[2].tools # {}
    /\ Len(resp.results) = 2

\* C20: for every existing regular file that /api/stream accepts, a
\* zero-byte file included, every 206 response describes a non-empty
\* window inside the file: its Content-Range has
\* 0 <= start <= end <= size-1 and its Content-Length is at least 1.
C20_NonEmptyWindow ==
    (spc = "responded" /\ sresp.status = 206) =>
        /\ 0 <= sresp.content_range[1]
        /\ sresp.content_range[1] <= sresp.content_range[2]
        /\ sresp.content_range[2] <= sresp.content_range[3] - 1
        /\ sresp.content_range[3] = file_size
        /\ sresp.length >= 1

====
